---- MODULE Spec2Model ----
(***************************************************************************)
(* Model of the instance-spec assembly in propolis-server                  *)
(* (bin/propolis-server/src/lib/spec.rs): ServerSpecBuilder, its helper    *)
(* functions, and the SpecBuilder delegate it drives; and of the reset     *)
(* counter of the server-level metrics (bin/propolis-server/src/lib/       *)
(* stats.rs): ServerStatsOuter, shared by its clones behind Arc<Mutex<_>>. *)
(*                                                                         *)
(* Text that the code formats or parses (PCI paths, the names derived from *)
(* them) is a sequence of one-character strings; text the code only        *)
(* carries around (disk names, vNIC names, option keys) is a string.       *)
(***************************************************************************)
EXTENDS Integers, Sequences, FiniteSets, TLC

VARIABLES
    builder,    \* Option<ServerSpecBuilder>: <<>> before new / after finish
    result,     \* what the last call returned
    op,         \* the last call and its arguments
    finished,   \* Option<InstanceSpecV0>: what finish returned
    nops,       \* number of add_* calls made on the builder
    heap,       \* the Arc<Mutex<ServerStats>> allocations, by address
    handles,    \* the ServerStatsOuter each thread calls into, once registered
    pc,         \* where each thread is in count_reset or produce
    local,      \* the run_count a thread has read under the lock
    produced,   \* what each thread's last produce call returned
    started,    \* count_reset calls made so far
    returned,   \* count_reset calls that have returned
    floor       \* per thread: returned, as it was when its produce call began

builderVars == <<builder, result, op, finished, nops>>
statsVars == <<heap, handles, pc, local, produced, started, returned, floor>>
vars == <<builder, result, op, finished, nops,
          heap, handles, pc, local, produced, started, returned, floor>>

----------------------------------------------------------------------------
(* Bounds of the model *)

\* add_* calls made on one builder
MaxOps == 2
\* calls made on one builder in the serial-port specification
MaxSerialCalls == 5
\* count_reset calls made in the metrics specification
MaxResets == 3

----------------------------------------------------------------------------
(* Option and Result *)

None == <<>>
Some(x) == <<x>>
IsSome(o) == o # <<>>
Unwrap(o) == o[1]

Ok == [ok |-> TRUE]
OkVal(v) == [ok |-> TRUE, val |-> v]
Err(e) == [ok |-> FALSE, err |-> e]
NoResult == [ok |-> TRUE, fresh |-> TRUE]

\* let v = ...; K(v)
With(v, K(_)) == K(v)

\* BTreeMap::insert
MapInsert(m, k, v) == [x \in (DOMAIN m) \cup {k} |-> IF x = k THEN v ELSE m[x]]
EmptyMap == <<>>

----------------------------------------------------------------------------
(* ServerSpecBuilderError and SpecBuilderError *)

InnerBuilderError(e) == [kind |-> "InnerBuilderError", inner |-> e]
PciPathNotParseable(text) == [kind |-> "PciPathNotParseable", text |-> text]
PciSlotInvalid(slot, ty) == [kind |-> "PciSlotInvalid", slot |-> slot, ty |-> ty]
UnrecognizedStorageDevice(s) == [kind |-> "UnrecognizedStorageDevice", iface |-> s]
UnrecognizedStorageBackend(s) == [kind |-> "UnrecognizedStorageBackend", bdtype |-> s]
DeviceMissingBackend(dev, be) ==
    [kind |-> "DeviceMissingBackend", device |-> dev, backend |-> be]
\* the message is format!(what, arg)
ConfigTomlError(what, arg) == [kind |-> "ConfigTomlError", what |-> what, arg |-> arg]
\* the same error, its message formatted from a toml::Value
ConfigTomlValueError(what, v) == [kind |-> "ConfigTomlError", what |-> what, value |-> v]
SerializationError(name) == [kind |-> "SerializationError", name |-> name]

PciPathInUse(path) == [kind |-> "PciPathInUse", path |-> path]
SerialPortInUse(port) == [kind |-> "SerialPortInUse", port |-> port]

----------------------------------------------------------------------------
(* PciPath: construction, Display and FromStr *)

U8Max == 255
PciMaxDevice == 31
PciMaxFunction == 7

\* PciPath::new(bus, device, function)
PciPath_new(bus, device, function) ==
    IF device > PciMaxDevice \/ function > PciMaxFunction
    THEN Err("InvalidInput")
    ELSE OkVal([bus |-> bus, device |-> device, function |-> function])

DigitChars == <<"0", "1", "2", "3", "4", "5", "6", "7", "8", "9">>

RECURSIVE u8_to_string(_)
\* Display of an unsigned integer: its decimal digits
u8_to_string(n) ==
    IF n < 10 THEN <<DigitChars[n + 1]>>
    ELSE u8_to_string(n \div 10) \o <<DigitChars[(n % 10) + 1]>>

\* impl Display for PciPath: "{bus}.{device}.{function}"
PciPath_fmt(path) ==
    u8_to_string(path.bus) \o <<".">> \o u8_to_string(path.device)
        \o <<".">> \o u8_to_string(path.function)

DigitValue(c) == CHOOSE d \in 0..9 : DigitChars[d + 1] = c
IsDigit(c) == \E d \in 0..9 : DigitChars[d + 1] = c

RECURSIVE SplitDot(_)
\* str::split('.'): the fields between the dots, empty fields included
SplitDot(s) ==
    IF \A i \in 1..Len(s) : s[i] # "."
    THEN <<s>>
    ELSE LET i == CHOOSE j \in 1..Len(s) :
                      s[j] = "." /\ \A k \in 1..(j - 1) : s[k] # "."
         IN <<SubSeq(s, 1, i - 1)>> \o SplitDot(SubSeq(s, i + 1, Len(s)))

RECURSIVE DigitsValue(_)
DigitsValue(s) ==
    IF Len(s) = 0 THEN 0
    ELSE 10 * DigitsValue(SubSeq(s, 1, Len(s) - 1)) + DigitValue(s[Len(s)])

\* usize::from_str: an optional '+', then one or more decimal digits
usize_from_str(f) ==
    LET digits == IF Len(f) > 0 /\ f[1] = "+" THEN Tail(f) ELSE f
    IN IF Len(digits) = 0 \/ \E i \in 1..Len(digits) : ~IsDigit(digits[i])
       THEN Err("ParseIntError")
       ELSE OkVal(DigitsValue(digits))

\* impl FromStr for PciPath
PciPath_from_str(s) ==
    With(SplitDot(s), LAMBDA fields :
    With([i \in 1..Len(fields) |-> usize_from_str(fields[i])], LAMBDA nums :
      IF \E i \in 1..Len(fields) : ~nums[i].ok \/ nums[i].val > U8Max
      THEN Err("InvalidInput")
      ELSE IF Len(fields) # 3
      THEN Err("InvalidInput")
      ELSE PciPath_new(nums[1].val, nums[2].val, nums[3].val)))

----------------------------------------------------------------------------
(* PCI topology allocator and naming scheme *)

SlotTypes == {"Nic", "Disk", "CloudInit"}

NicMaxSlot == 7
NicBase == 8
DiskMaxSlot == 7
DiskBase == 16
CloudInitBase == 24

\* u8 addition
U8Add(a, b) == (a + b) % (U8Max + 1)

\* mutant: the disk range reaches one slot too far
slot_to_pci_path_disk_off_by_one(slot, ty) ==
    IF ty = "Disk" /\ slot <= DiskMaxSlot + 1
    THEN PciPath_new(0, U8Add(slot, DiskBase), 0)
    ELSE IF ty = "Nic" /\ slot <= NicMaxSlot
    THEN PciPath_new(0, U8Add(slot, NicBase), 0)
    ELSE IF ty = "CloudInit" /\ slot = 0
    THEN PciPath_new(0, U8Add(slot, CloudInitBase), 0)
    ELSE Err(PciSlotInvalid(slot, ty))

slot_to_pci_path(slot, ty) ==
    LET made ==
          IF ty = "Nic" /\ slot <= NicMaxSlot
          THEN Some(PciPath_new(0, U8Add(slot, NicBase), 0))
          ELSE IF ty = "Disk" /\ slot <= DiskMaxSlot
          THEN Some(PciPath_new(0, U8Add(slot, DiskBase), 0))
          ELSE IF ty = "CloudInit" /\ slot = 0
          THEN Some(PciPath_new(0, U8Add(slot, CloudInitBase), 0))
          ELSE None
    IN IF made = None THEN Err(PciSlotInvalid(slot, ty))
       ELSE IF ~Unwrap(made).ok THEN Err(PciSlotInvalid(slot, ty))
       ELSE Unwrap(made)

VnicPrefix == <<"v", "n", "i", "c", "-">>
BackendSuffix == <<"-", "b", "a", "c", "k", "e", "n", "d">>

pci_path_to_nic_names(path) ==
    [device |-> VnicPrefix \o PciPath_fmt(path),
     backend |-> VnicPrefix \o PciPath_fmt(path) \o BackendSuffix]

----------------------------------------------------------------------------
(* Components of the instance spec *)

VirtioDisk(backend_name, pci_path) ==
    [kind |-> "VirtioDisk", backend_name |-> backend_name, pci_path |-> pci_path]
NvmeDisk(backend_name, pci_path) ==
    [kind |-> "NvmeDisk", backend_name |-> backend_name, pci_path |-> pci_path]
VirtioNic(backend_name, pci_path) ==
    [kind |-> "VirtioNic", backend_name |-> backend_name, pci_path |-> pci_path]
PciPciBridge(downstream_bus, pci_path) ==
    [downstream_bus |-> downstream_bus, pci_path |-> pci_path]
QemuPvpanic(enable_isa) == [enable_isa |-> enable_isa]

CrucibleStorageBackend(request_json, readonly) ==
    [kind |-> "Crucible", request_json |-> request_json, readonly |-> readonly]
FileStorageBackend(path, readonly) ==
    [kind |-> "File", path |-> path, readonly |-> readonly]
BlobStorageBackend(base64, readonly) ==
    [kind |-> "Blob", base64 |-> base64, readonly |-> readonly]
VirtioNetworkBackend(vnic_name) == [kind |-> "Virtio", vnic_name |-> vnic_name]

SerialPortNumber == {"Com1", "Com2", "Com3", "Com4"}

----------------------------------------------------------------------------
(* SpecBuilder: the spec assembly delegate *)

SpecBuilder_new(cpus, memory_mb, enable_pcie) ==
    [spec |->
        [board |-> [cpus |-> cpus, memory_mb |-> memory_mb,
                    chipset |-> [enable_pcie |-> enable_pcie]],
         storage_devices |-> EmptyMap,
         storage_backends |-> EmptyMap,
         network_devices |-> EmptyMap,
         network_backends |-> EmptyMap,
         pci_pci_bridges |-> EmptyMap,
         serial_ports |-> {},
         qemu_pvpanic |-> None],
     pci_paths |-> {}]

\* the outcome of a call on a builder: what it returned and the builder after it
Outcome(res, b) == [res |-> res, b |-> b]

SpecBuilder_add_pvpanic_device(b, pvpanic) ==
    Outcome(Ok, [b EXCEPT !.spec.qemu_pvpanic = Some(pvpanic)])

SpecBuilder_add_storage_device(b, device_name, device_spec, backend_name, backend_spec) ==
    IF device_spec.pci_path \in b.pci_paths
    THEN Outcome(Err(PciPathInUse(device_spec.pci_path)), b)
    ELSE Outcome(Ok,
           [b EXCEPT
              !.pci_paths = @ \cup {device_spec.pci_path},
              !.spec.storage_devices = MapInsert(@, device_name, device_spec),
              !.spec.storage_backends = MapInsert(@, backend_name, backend_spec)])

SpecBuilder_add_network_device(b, device_name, device_spec, backend_name, backend_spec) ==
    IF device_spec.pci_path \in b.pci_paths
    THEN Outcome(Err(PciPathInUse(device_spec.pci_path)), b)
    ELSE Outcome(Ok,
           [b EXCEPT
              !.pci_paths = @ \cup {device_spec.pci_path},
              !.spec.network_devices = MapInsert(@, device_name, device_spec),
              !.spec.network_backends = MapInsert(@, backend_name, backend_spec)])

SpecBuilder_add_pci_bridge(b, bridge_name, bridge_spec) ==
    IF bridge_spec.pci_path \in b.pci_paths
    THEN Outcome(Err(PciPathInUse(bridge_spec.pci_path)), b)
    ELSE Outcome(Ok,
           [b EXCEPT
              !.pci_paths = @ \cup {bridge_spec.pci_path},
              !.spec.pci_pci_bridges = MapInsert(@, bridge_name, bridge_spec)])

SpecBuilder_add_serial_port(b, port) ==
    IF port \in b.spec.serial_ports
    THEN Outcome(Err(SerialPortInUse(port)), b)
    ELSE Outcome(Ok, [b EXCEPT !.spec.serial_ports = @ \cup {port}])

SpecBuilder_finish(b) == b.spec

----------------------------------------------------------------------------
(* Configuration values: toml::Value and config::Device accessors *)

TomlBoolean(b) == [t |-> "Boolean", b |-> b]
TomlString(s) == [t |-> "String", s |-> s]
TomlInteger(i) == [t |-> "Integer", i |-> i]

\* BTreeMap::get
MapGet(m, k) == IF k \in DOMAIN m THEN Some(m[k]) ELSE None

toml_as_bool(v) == IF v.t = "Boolean" THEN Some(v.b) ELSE None
toml_as_str(v) == IF v.t = "String" THEN Some(v.s) ELSE None

\* str::parse::<bool>
bool_from_str(s) ==
    IF s = "true" THEN OkVal(TRUE)
    ELSE IF s = "false" THEN OkVal(FALSE)
    ELSE Err("ParseBoolError")

\* config::Device::get_string
Device_get_string(device, key) ==
    LET v == MapGet(device.options, key)
    IN IF v = None THEN None ELSE toml_as_str(Unwrap(v))

\* config::Device::get::<PciPath>
Device_get_pci_path(device, key) ==
    With(Device_get_string(device, key), LAMBDA s :
      IF s = None THEN None
      ELSE With(PciPath_from_str(Unwrap(s)), LAMBDA parsed :
             IF parsed.ok THEN Some(parsed.val) ELSE None))

----------------------------------------------------------------------------
(* Helper functions of spec.rs *)

\* the ? operator on a delegate call: From<SpecBuilderError>
Lift(outcome) ==
    IF outcome.res.ok THEN outcome
    ELSE Outcome(Err(InnerBuilderError(outcome.res.err)), outcome.b)

\* mutant: a readonly string that does not parse is a format error
make_storage_backend_from_config_strict(name, backend) ==
    IF backend.bdtype = "file"
    THEN LET path == MapGet(backend.options, "path")
             ro == MapGet(backend.options, "readonly")
         IN IF path = None
            THEN Err(ConfigTomlError("Couldn't get path for file backend", name))
            ELSE IF toml_as_str(Unwrap(path)) = None
            THEN Err(ConfigTomlError("Couldn't parse path for file backend", name))
            ELSE IF ro # None /\ Unwrap(ro).t = "String"
                    /\ ~bool_from_str(Unwrap(ro).s).ok
            THEN Err(ConfigTomlError("Couldn't parse readonly for file backend", name))
            ELSE OkVal(FileStorageBackend(
                     Unwrap(toml_as_str(Unwrap(path))),
                     IF ro = None THEN FALSE
                     ELSE IF Unwrap(ro).t = "Boolean" THEN Unwrap(ro).b
                     ELSE IF Unwrap(ro).t = "String"
                     THEN bool_from_str(Unwrap(ro).s).val
                     ELSE FALSE))
    ELSE Err(UnrecognizedStorageBackend(backend.bdtype))

make_storage_backend_from_config(name, backend) ==
    IF backend.bdtype = "file"
    THEN LET path == MapGet(backend.options, "path")
             ro == MapGet(backend.options, "readonly")
             readonly ==
               IF ro = None THEN None
               ELSE IF Unwrap(ro).t = "Boolean" THEN Some(Unwrap(ro).b)
               ELSE IF Unwrap(ro).t = "String"
               THEN LET parsed == bool_from_str(Unwrap(ro).s)
                    IN IF parsed.ok THEN Some(parsed.val) ELSE None
               ELSE None
         IN IF path = None
            THEN Err(ConfigTomlError("Couldn't get path for file backend", name))
            ELSE IF toml_as_str(Unwrap(path)) = None
            THEN Err(ConfigTomlError("Couldn't parse path for file backend", name))
            ELSE OkVal(FileStorageBackend(
                     Unwrap(toml_as_str(Unwrap(path))),
                     IF readonly = None THEN FALSE ELSE Unwrap(readonly)))
    ELSE Err(UnrecognizedStorageBackend(backend.bdtype))

make_storage_device_from_config(name, device) ==
    IF device.driver \notin {"pci-virtio-block", "pci-nvme"}
    THEN Err(ConfigTomlError("storage device has invalid driver", name))
    ELSE
    With(MapGet(device.options, "block_dev"), LAMBDA block_dev :
      IF block_dev = None
      THEN Err(ConfigTomlError("Couldn't get block_dev for storage device", name))
      ELSE IF toml_as_str(Unwrap(block_dev)) = None
      THEN Err(ConfigTomlError("Couldn't parse block_dev for storage device", name))
      ELSE
      With(Device_get_pci_path(device, "pci-path"), LAMBDA pci_path :
        IF pci_path = None
        THEN Err(ConfigTomlError("Failed to get PCI path for storage device", name))
        ELSE IF device.driver = "pci-virtio-block"
        THEN OkVal(VirtioDisk(Unwrap(toml_as_str(Unwrap(block_dev))),
                              Unwrap(pci_path)))
        ELSE OkVal(NvmeDisk(Unwrap(toml_as_str(Unwrap(block_dev))),
                            Unwrap(pci_path)))))

\* serde_json::to_string of a volume construction request: the text, or the
\* error of a request whose serialization fails
serde_json_to_string(vcr) ==
    IF vcr.kind = "Unserializable" THEN Err("serde_json::Error")
    ELSE OkVal([json_of |-> vcr])

----------------------------------------------------------------------------
(* ServerSpecBuilder: each operation yields its result and the builder after it *)

\* mutant: the pvpanic device is left out
ServerSpecBuilder_new_without_pvpanic(properties, config) ==
    IF "enable-pcie" \in DOMAIN config.chipset.options
       /\ toml_as_bool(config.chipset.options["enable-pcie"]) = None
    THEN Outcome(Err(ConfigTomlValueError(
                     "Invalid value for enable-pcie flag in chipset",
                     config.chipset.options["enable-pcie"])), None)
    ELSE Outcome(Ok, Some(SpecBuilder_new(
             properties.vcpus, properties.memory,
             IF "enable-pcie" \in DOMAIN config.chipset.options
             THEN config.chipset.options["enable-pcie"].b ELSE FALSE)))

ServerSpecBuilder_new(properties, config) ==
    LET opt == MapGet(config.chipset.options, "enable-pcie")
        enable_pcie ==
          IF opt = None THEN OkVal(FALSE)
          ELSE IF toml_as_bool(Unwrap(opt)) = None
          THEN Err(ConfigTomlValueError(
                       "Invalid value for enable-pcie flag in chipset", Unwrap(opt)))
          ELSE OkVal(Unwrap(toml_as_bool(Unwrap(opt))))
    IN IF ~enable_pcie.ok THEN Outcome(enable_pcie, None)
       ELSE LET added == Lift(SpecBuilder_add_pvpanic_device(
                             SpecBuilder_new(properties.vcpus, properties.memory,
                                             enable_pcie.val),
                             QemuPvpanic(TRUE)))
            IN IF ~added.res.ok THEN Outcome(added.res, None)
               ELSE Outcome(Ok, Some(added.b))

add_nic_from_request(b, nic) ==
    With(slot_to_pci_path(nic.slot, "Nic"), LAMBDA pci_path :
      IF ~pci_path.ok THEN Outcome(pci_path, b)
      ELSE With(pci_path_to_nic_names(pci_path.val), LAMBDA names :
             Lift(SpecBuilder_add_network_device(
                 b, names.device, VirtioNic(names.backend, pci_path.val),
                 names.backend, VirtioNetworkBackend(nic.name)))))

\* the code of add_disk_from_request, with the slot class and the handling of
\* the delegate's result as parameters
disk_from_request_variant(b, disk, ty, Handle(_)) ==
    With(slot_to_pci_path(disk.slot, ty), LAMBDA pci_path :
      IF ~pci_path.ok THEN Outcome(pci_path, b)
      ELSE IF disk.device \notin {"virtio", "nvme"}
      THEN Outcome(Err(UnrecognizedStorageDevice(disk.device)), b)
      ELSE Handle(SpecBuilder_add_storage_device(
               b, disk.name,
               IF disk.device = "virtio" THEN VirtioDisk(disk.name, pci_path.val)
                                         ELSE NvmeDisk(disk.name, pci_path.val),
               disk.name,
               CrucibleStorageBackend(
                   serde_json_to_string(disk.volume_construction_request).val,
                   disk.read_only))))

\* mutant: the disk's path is taken from the NIC class
add_disk_from_request_nic_class(b, disk) ==
    disk_from_request_variant(b, disk, "Nic", Lift)

IgnoreError(outcome) == Outcome(Ok, outcome.b)

\* mutant: the two interfaces are swapped
add_disk_from_request_swapped(b, disk) ==
    With(slot_to_pci_path(disk.slot, "Disk"), LAMBDA pci_path :
      IF ~pci_path.ok THEN Outcome(pci_path, b)
      ELSE IF disk.device \notin {"virtio", "nvme"}
      THEN Outcome(Err(UnrecognizedStorageDevice(disk.device)), b)
      ELSE Lift(SpecBuilder_add_storage_device(
               b, disk.name,
               IF disk.device = "nvme" THEN VirtioDisk(disk.name, pci_path.val)
                                       ELSE NvmeDisk(disk.name, pci_path.val),
               disk.name,
               CrucibleStorageBackend(
                   serde_json_to_string(disk.volume_construction_request).val,
                   disk.read_only))))

\* mutant: the delegate's result is dropped
add_disk_from_request_unchecked(b, disk) ==
    disk_from_request_variant(b, disk, "Disk", IgnoreError)

\* mutant: the interface string is looked at first
add_disk_from_request_interface_first(b, disk) ==
    IF disk.device \notin {"virtio", "nvme"}
    THEN Outcome(Err(UnrecognizedStorageDevice(disk.device)), b)
    ELSE
    With(slot_to_pci_path(disk.slot, "Disk"), LAMBDA pci_path :
      IF ~pci_path.ok THEN Outcome(pci_path, b)
      ELSE
      With(serde_json_to_string(disk.volume_construction_request), LAMBDA json :
        IF ~json.ok THEN Outcome(Err(SerializationError(disk.name)), b)
        ELSE Lift(SpecBuilder_add_storage_device(
                 b, disk.name,
                 IF disk.device = "virtio" THEN VirtioDisk(disk.name, pci_path.val)
                                           ELSE NvmeDisk(disk.name, pci_path.val),
                 disk.name,
                 CrucibleStorageBackend(json.val, disk.read_only)))))

\* mutant: the disk goes to the first slot no storage device of the spec has
\* taken yet, whatever slot the request names
add_disk_from_request_by_arrival(b, disk) ==
    disk_from_request_variant(
        b, [disk EXCEPT !.slot = Cardinality(DOMAIN b.spec.storage_devices)],
        "Disk", Lift)

add_disk_from_request(b, disk) ==
    With(slot_to_pci_path(disk.slot, "Disk"), LAMBDA pci_path :
      IF ~pci_path.ok THEN Outcome(pci_path, b)
      ELSE
      With(serde_json_to_string(disk.volume_construction_request), LAMBDA json :
        IF ~json.ok THEN Outcome(Err(SerializationError(disk.name)), b)
        ELSE IF disk.device \notin {"virtio", "nvme"}
        THEN Outcome(Err(UnrecognizedStorageDevice(disk.device)), b)
        ELSE Lift(SpecBuilder_add_storage_device(
                 b, disk.name,
                 IF disk.device = "virtio" THEN VirtioDisk(disk.name, pci_path.val)
                                           ELSE NvmeDisk(disk.name, pci_path.val),
                 disk.name,
                 CrucibleStorageBackend(json.val, disk.read_only)))))

CloudInitName == "cloud-init"

\* mutant: the cloud-init disk is given the first slot of the disks
add_cloud_init_from_request_disk_slot(b, base64) ==
    With(slot_to_pci_path(0, "Disk"), LAMBDA pci_path :
      IF ~pci_path.ok THEN Outcome(pci_path, b)
      ELSE Lift(SpecBuilder_add_storage_device(
               b, CloudInitName, VirtioDisk(CloudInitName, pci_path.val),
               CloudInitName, BlobStorageBackend(base64, TRUE))))

add_cloud_init_from_request(b, base64) ==
    With(slot_to_pci_path(0, "CloudInit"), LAMBDA pci_path :
      IF ~pci_path.ok THEN Outcome(pci_path, b)
      ELSE Lift(SpecBuilder_add_storage_device(
               b, CloudInitName, VirtioDisk(CloudInitName, pci_path.val),
               CloudInitName, BlobStorageBackend(base64, TRUE))))

\* mutant: the device is named by its key in the device table
add_network_device_from_config_keyed(b, name, device) ==
    With(Device_get_string(device, "vnic"), LAMBDA vnic_name :
    With(Device_get_pci_path(device, "pci-path"), LAMBDA pci_path :
      IF vnic_name = None \/ pci_path = None
      THEN Outcome(Err(ConfigTomlError("Failed to get vNIC name for device", name)), b)
      ELSE With(pci_path_to_nic_names(Unwrap(pci_path)), LAMBDA names :
             Lift(SpecBuilder_add_network_device(
                 b, <<name>>, VirtioNic(names.backend, Unwrap(pci_path)),
                 names.backend, VirtioNetworkBackend(Unwrap(vnic_name)))))))

add_network_device_from_config(b, name, device) ==
    With(Device_get_string(device, "vnic"), LAMBDA vnic_name :
      IF vnic_name = None
      THEN Outcome(Err(ConfigTomlError("Failed to get vNIC name for device", name)), b)
      ELSE
      With(Device_get_pci_path(device, "pci-path"), LAMBDA pci_path :
        IF pci_path = None
        THEN Outcome(Err(ConfigTomlError("Failed to get PCI path for network device",
                                         name)), b)
        ELSE With(pci_path_to_nic_names(Unwrap(pci_path)), LAMBDA names :
               Lift(SpecBuilder_add_network_device(
                   b, names.device, VirtioNic(names.backend, Unwrap(pci_path)),
                   names.backend, VirtioNetworkBackend(Unwrap(vnic_name)))))))

BridgePrefix == <<"p", "c", "i", "-", "b", "r", "i", "d", "g", "e", "-">>

add_pci_bridge_from_config(b, bridge) ==
    With(PciPath_from_str(bridge.pci_path), LAMBDA pci_path :
      IF ~pci_path.ok
      THEN Outcome(Err(PciPathNotParseable(bridge.pci_path)), b)
      ELSE Lift(SpecBuilder_add_pci_bridge(
               b, BridgePrefix \o u8_to_string(bridge.downstream_bus),
               PciPciBridge(bridge.downstream_bus, pci_path.val))))

\* mutant: DeviceMissingBackend carries its two names the other way round
add_device_entry_swapped_names(b, config, device_name, device) ==
    IF device.driver \in {"pci-virtio-block", "pci-nvme"}
    THEN
      With(make_storage_device_from_config(device_name, device), LAMBDA device_spec :
        IF ~device_spec.ok THEN Outcome(device_spec, b)
        ELSE
        With(device_spec.val.backend_name, LAMBDA backend_name :
        With(MapGet(config.block_devs, backend_name), LAMBDA backend_config :
          IF backend_config = None
          THEN Outcome(Err(DeviceMissingBackend(backend_name, device_name)), b)
          ELSE
          With(make_storage_backend_from_config(backend_name, Unwrap(backend_config)),
               LAMBDA backend_spec :
            IF ~backend_spec.ok THEN Outcome(backend_spec, b)
            ELSE Lift(SpecBuilder_add_storage_device(
                     b, device_name, device_spec.val,
                     backend_name, backend_spec.val))))))
    ELSE IF device.driver = "pci-virtio-viona"
    THEN add_network_device_from_config(b, device_name, device)
    ELSE Outcome(Err(ConfigTomlError("Unrecognized device type", device.driver)), b)

\* one iteration of the loop over config.devices
add_device_entry(b, config, device_name, device) ==
    IF device.driver \in {"pci-virtio-block", "pci-nvme"}
    THEN
      With(make_storage_device_from_config(device_name, device), LAMBDA device_spec :
        IF ~device_spec.ok THEN Outcome(device_spec, b)
        ELSE
        With(device_spec.val.backend_name, LAMBDA backend_name :
        With(MapGet(config.block_devs, backend_name), LAMBDA backend_config :
          IF backend_config = None
          THEN Outcome(Err(DeviceMissingBackend(device_name, backend_name)), b)
          ELSE
          With(make_storage_backend_from_config(backend_name, Unwrap(backend_config)),
               LAMBDA backend_spec :
            IF ~backend_spec.ok THEN Outcome(backend_spec, b)
            ELSE Lift(SpecBuilder_add_storage_device(
                     b, device_name, device_spec.val,
                     backend_name, backend_spec.val))))))
    ELSE IF device.driver = "pci-virtio-viona"
    THEN add_network_device_from_config(b, device_name, device)
    ELSE Outcome(Err(ConfigTomlError("Unrecognized device type", device.driver)), b)

RECURSIVE add_devices_loop(_, _, _)
\* for (device_name, device) in config.devices.iter(), from the i-th entry on
add_devices_loop(b, config, i) ==
    IF i > Len(config.devices) THEN Outcome(Ok, b)
    ELSE With(add_device_entry(b, config, config.devices[i].name,
                               config.devices[i].device),
              LAMBDA step : IF ~step.res.ok THEN step
                            ELSE add_devices_loop(step.b, config, i + 1))

RECURSIVE add_bridges_loop(_, _, _)
\* for bridge in config.pci_bridges.iter(), from the i-th entry on
add_bridges_loop(b, config, i) ==
    IF i > Len(config.pci_bridges) THEN Outcome(Ok, b)
    ELSE With(add_pci_bridge_from_config(b, config.pci_bridges[i]),
              LAMBDA step : IF ~step.res.ok THEN step
                            ELSE add_bridges_loop(step.b, config, i + 1))

\* mutant: the bridges are added ahead of the devices
add_devices_from_config_bridges_first(b, config) ==
    With(add_bridges_loop(b, config, 1),
         LAMBDA bridges : IF ~bridges.res.ok THEN bridges
                          ELSE add_devices_loop(bridges.b, config, 1))

\* mutant: the bridges are added even when a device entry has failed
add_devices_from_config_bridges_always(b, config) ==
    With(add_devices_loop(b, config, 1),
         LAMBDA devices :
           IF ~devices.res.ok
           THEN Outcome(devices.res, add_bridges_loop(devices.b, config, 1).b)
           ELSE add_bridges_loop(devices.b, config, 1))

add_devices_from_config(b, config) ==
    With(add_devices_loop(b, config, 1),
         LAMBDA devices : IF ~devices.res.ok THEN devices
                          ELSE add_bridges_loop(devices.b, config, 1))

\* mutant: the delegate's result is dropped
add_serial_port_unchecked(b, port) ==
    Outcome(Ok, SpecBuilder_add_serial_port(b, port).b)

add_serial_port(b, port) == Lift(SpecBuilder_add_serial_port(b, port))

finish(b) == SpecBuilder_finish(b)

----------------------------------------------------------------------------
(* Inputs: instance properties, requests and configurations *)

DefaultProperties == [vcpus |-> 4, memory |-> 512]

Config(chipset_options, devices, block_devs, pci_bridges) ==
    [chipset |-> [options |-> chipset_options],
     \* BTreeMap<String, Device>, as its entries in key order
     devices |-> devices,
     block_devs |-> block_devs,
     pci_bridges |-> pci_bridges]

\* Config::default()
DefaultConfig == Config(EmptyMap, <<>>, EmptyMap, <<>>)

Entry(name, driver, options) ==
    [name |-> name, device |-> [driver |-> driver, options |-> options]]
BlockDevice(bdtype, options) == [bdtype |-> bdtype, options |-> options]
Bridge(downstream_bus, pci_path) ==
    [downstream_bus |-> downstream_bus, pci_path |-> pci_path]

\* PCI path texts
Text_0_8_0 == <<"0", ".", "8", ".", "0">>
Text_0_9_0 == <<"0", ".", "9", ".", "0">>
Text_0_16_0 == <<"0", ".", "1", "6", ".", "0">>
Text_0_20_0 == <<"0", ".", "2", "0", ".", "0">>
Text_0_21_0 == <<"0", ".", "2", "1", ".", "0">>
Text_0_32_0 == <<"0", ".", "3", "2", ".", "0">>
Text_0_8 == <<"0", ".", "8">>

StorageOptions(block_dev, text) ==
    ("block_dev" :> TomlString(block_dev)) @@ ("pci-path" :> TomlString(text))
NicOptions(vnic, text) ==
    ("vnic" :> TomlString(vnic)) @@ ("pci-path" :> TomlString(text))
FileBackend(path) == BlockDevice("file", "path" :> TomlString(path))

BlockDevs == ("bd0" :> FileBackend("bd0.img"))
             @@ ("bd1" :> BlockDevice("file", ("path" :> TomlString("bd1.img"))
                                              @@ ("readonly" :> TomlString("true"))))
             @@ ("bd2" :> BlockDevice("zvol", "path" :> TomlString("bd2.img")))

\* the configurations handed to add_devices_from_config
DeviceConfigs == <<
    DefaultConfig,
    \* a virtio-block disk where the disk of request slot 0 goes
    Config(EmptyMap,
           <<Entry("block0", "pci-virtio-block", StorageOptions("bd0", Text_0_16_0))>>,
           BlockDevs, <<>>),
    \* a NIC where the NIC of request slot 0 goes
    Config(EmptyMap,
           <<Entry("net0", "pci-virtio-viona", NicOptions("vnic0", Text_0_8_0))>>,
           BlockDevs, <<>>),
    \* a storage device naming a backend that is not in the table
    Config(EmptyMap,
           <<Entry("block0", "pci-nvme", StorageOptions("bd9", Text_0_20_0))>>,
           BlockDevs, <<>>),
    \* a good disk, then an entry with an unknown driver
    Config(EmptyMap,
           <<Entry("block0", "pci-nvme", StorageOptions("bd1", Text_0_20_0)),
             Entry("net0", "pci-unknown", NicOptions("vnic0", Text_0_9_0))>>,
           BlockDevs, <<>>),
    \* a good NIC, a good bridge, then a bridge whose path does not parse
    Config(EmptyMap,
           <<Entry("net0", "pci-virtio-viona", NicOptions("vnic1", Text_0_9_0))>>,
           BlockDevs, <<Bridge(1, Text_0_21_0), Bridge(2, Text_0_8)>>),
    \* a good disk and a bridge on the same path
    Config(EmptyMap,
           <<Entry("block0", "pci-virtio-block", StorageOptions("bd0", Text_0_20_0))>>,
           BlockDevs, <<Bridge(1, Text_0_20_0)>>),
    \* a storage device whose PCI path is out of range
    Config(EmptyMap,
           <<Entry("block0", "pci-virtio-block", StorageOptions("bd0", Text_0_32_0))>>,
           BlockDevs, <<>>),
    \* a storage device on a backend of an unknown type
    Config(EmptyMap,
           <<Entry("block0", "pci-nvme", StorageOptions("bd2", Text_0_20_0))>>,
           BlockDevs, <<>>),
    \* a NIC without a vnic option, after a good disk
    Config(EmptyMap,
           <<Entry("block0", "pci-nvme", StorageOptions("bd0", Text_0_21_0)),
             Entry("net0", "pci-virtio-viona", "pci-path" :> TomlString(Text_0_9_0))>>,
           BlockDevs, <<>>),
    \* a good NIC, then a storage device naming a backend that is not in the table
    Config(EmptyMap,
           <<Entry("anet", "pci-virtio-viona", NicOptions("vnic1", Text_0_9_0)),
             Entry("block0", "pci-virtio-block", StorageOptions("bd9", Text_0_16_0))>>,
           BlockDevs, <<>>),
    \* two good bridges
    Config(EmptyMap, <<>>, EmptyMap, <<Bridge(1, Text_0_20_0), Bridge(2, Text_0_21_0)>>),
    \* an entry with an unknown driver, a good bridge and a bridge whose path
    \* does not parse
    Config(EmptyMap,
           <<Entry("net0", "pci-unknown", NicOptions("vnic0", Text_0_9_0))>>,
           BlockDevs, <<Bridge(1, Text_0_21_0), Bridge(2, Text_0_8)>>),
    \* two disks on one path, and a bridge whose path does not parse
    Config(EmptyMap,
           <<Entry("block0", "pci-nvme", StorageOptions("bd0", Text_0_20_0)),
             Entry("block1", "pci-virtio-block", StorageOptions("bd1", Text_0_20_0))>>,
           BlockDevs, <<Bridge(1, Text_0_8)>>)
>>

\* the configurations handed to ServerSpecBuilder::new
ChipsetConfig(v) == Config("enable-pcie" :> v, <<>>, EmptyMap, <<>>)

BuilderConfigs == <<
    DefaultConfig,
    ChipsetConfig(TomlBoolean(TRUE)),
    ChipsetConfig(TomlBoolean(FALSE)),
    ChipsetConfig(TomlString("true")),
    ChipsetConfig(TomlString("false")),
    ChipsetConfig(TomlString("yes")),
    ChipsetConfig(TomlInteger(1))
>>

ReqSlots == {0, 1, NicMaxSlot, NicMaxSlot + 1}
VnicNames == {"vnic0", "vnic1"}
DiskNames == {"disk1", "disk2"}
DiskInterfaces == {"virtio", "nvme", "virtio-scsi"}
Payloads == {"c2VlZDE=", "c2VlZDI="}

NicRequests == [name : VnicNames, slot : ReqSlots]

\* VolumeConstructionRequest::File
VolumeFile(path) == [kind |-> "File", block_size |-> 512, path |-> path]

DiskRequests ==
    {[name |-> n, slot |-> s, read_only |-> (n = "disk1"), device |-> d,
      volume_construction_request |-> VolumeFile(n)] :
        n \in DiskNames, s \in ReqSlots, d \in DiskInterfaces}

----------------------------------------------------------------------------
(* ServerStatsOuter: the reset counter behind Arc<Mutex<ServerStats>> *)

Threads == {"api1", "api2", "oximeter"}

\* ServerStats::new: run_count is Reset::default()
ServerStats_new(virtual_machine) ==
    [virtual_machine |-> virtual_machine, run_count |-> 0]

\* Arc::new(Mutex::new(stats))
ArcMutex_new(stats) == [strong |-> 1, locked_by |-> None, stats |-> stats]

TheArc == "arc0"

\* #[derive(Clone)] on ServerStatsOuter: Arc::clone shares the allocation
ServerStatsOuter_clone(h, mem) ==
    [handle |-> h,
     heap |-> [mem EXCEPT ![h.server_stats_wrapped].strong = @ + 1]]

StatsInit ==
    /\ heap = EmptyMap
    /\ handles = [t \in Threads |-> None]
    /\ pc = [t \in Threads |-> "idle"]
    /\ local = [t \in Threads |-> 0]
    /\ produced = [t \in Threads |-> None]
    /\ started = 0
    /\ returned = 0
    /\ floor = [t \in Threads |-> 0]

\* register_server_metrics: the registry is handed a clone, the caller keeps
\* the original; registered |-> FALSE is register_producer failing
RegisterServerMetrics(kstat_sampler, registered) ==
    /\ heap = EmptyMap
    /\ LET stats_outer == [server_stats_wrapped |-> TheArc,
                           kstat_sampler |-> kstat_sampler]
           cloned == ServerStatsOuter_clone(
                         stats_outer,
                         TheArc :> ArcMutex_new(ServerStats_new("vm")))
       IN IF registered
          THEN /\ heap' = cloned.heap
               /\ handles' = [t \in Threads |->
                                IF t = "oximeter" THEN Some(cloned.handle)
                                                  ELSE Some(stats_outer)]
          ELSE \* both the clone and the original are dropped
               /\ heap' = [cloned.heap EXCEPT ![TheArc].strong = 0]
               /\ handles' = handles
    /\ UNCHANGED <<pc, local, produced, started, returned, floor>>
    /\ UNCHANGED builderVars

\* the allocation a thread's ServerStatsOuter points to
ArcOf(t) == Unwrap(handles[t]).server_stats_wrapped

\* count_reset is called
CountResetCall(t) ==
    /\ handles[t] # None
    /\ pc[t] = "idle"
    /\ pc' = [pc EXCEPT ![t] = "reset_lock"]
    /\ started' = started + 1
    /\ UNCHANGED <<heap, handles, local, produced, returned, floor>>
    /\ UNCHANGED builderVars

\* mutant: the counter is reached without waiting for the mutex
CountResetLock_unguarded(t) ==
    /\ pc[t] = "reset_lock"
    /\ heap' = [heap EXCEPT ![ArcOf(t)].locked_by = Some(t)]
    /\ pc' = [pc EXCEPT ![t] = "reset_read"]
    /\ UNCHANGED <<handles, local, produced, started, returned, floor>>
    /\ UNCHANGED builderVars

\* self.server_stats_wrapped.lock().unwrap()
CountResetLock(t) ==
    /\ pc[t] = "reset_lock"
    /\ heap[ArcOf(t)].locked_by = None
    /\ heap' = [heap EXCEPT ![ArcOf(t)].locked_by = Some(t)]
    /\ pc' = [pc EXCEPT ![t] = "reset_read"]
    /\ UNCHANGED <<handles, local, produced, started, returned, floor>>
    /\ UNCHANGED builderVars

\* *datum += 1: the load
CountResetRead(t) ==
    /\ pc[t] = "reset_read"
    /\ local' = [local EXCEPT ![t] = heap[ArcOf(t)].stats.run_count]
    /\ pc' = [pc EXCEPT ![t] = "reset_write"]
    /\ UNCHANGED <<heap, handles, produced, started, returned, floor>>
    /\ UNCHANGED builderVars

\* *datum += 1: the store; the guard is dropped and count_reset returns
CountResetWrite(t) ==
    /\ pc[t] = "reset_write"
    /\ heap' = [heap EXCEPT ![ArcOf(t)].stats.run_count = local[t] + 1,
                            ![ArcOf(t)].locked_by = None]
    /\ pc' = [pc EXCEPT ![t] = "idle"]
    /\ returned' = returned + 1
    /\ UNCHANGED <<handles, local, produced, started, floor>>
    /\ UNCHANGED builderVars

\* produce is called
ProduceCall(t) ==
    /\ handles[t] # None
    /\ pc[t] = "idle"
    /\ pc' = [pc EXCEPT ![t] = "produce_lock"]
    /\ floor' = [floor EXCEPT ![t] = returned]
    /\ produced' = [produced EXCEPT ![t] = None]
    /\ UNCHANGED <<heap, handles, local, started, returned>>
    /\ UNCHANGED builderVars

\* self.server_stats_wrapped.lock().unwrap()
ProduceLock(t) ==
    /\ pc[t] = "produce_lock"
    /\ heap[ArcOf(t)].locked_by = None
    /\ heap' = [heap EXCEPT ![ArcOf(t)].locked_by = Some(t)]
    /\ pc' = [pc EXCEPT ![t] = "produce_sample"]
    /\ UNCHANGED <<handles, local, produced, started, returned, floor>>
    /\ UNCHANGED builderVars

\* Sample::new(&inner.virtual_machine, &inner.run_count); the guard is dropped
\* at the end of the block
ProduceSample(t) ==
    /\ pc[t] = "produce_sample"
    /\ local' = [local EXCEPT ![t] = heap[ArcOf(t)].stats.run_count]
    /\ heap' = [heap EXCEPT ![ArcOf(t)].locked_by = None]
    /\ pc' = [pc EXCEPT ![t] = "produce_kstat"]
    /\ UNCHANGED <<handles, produced, started, returned, floor>>
    /\ UNCHANGED builderVars

\* the samples of the kstat sampler, if there is one, are chained on; its
\* failure is the failure of produce
ProduceReturn(t, sampler_ok) ==
    /\ pc[t] = "produce_kstat"
    /\ produced' = [produced EXCEPT ![t] =
          IF Unwrap(handles[t]).kstat_sampler = None \/ sampler_ok
          THEN Some(OkVal([run_count |-> local[t]]))
          ELSE Some(Err("MetricsError"))]
    /\ pc' = [pc EXCEPT ![t] = "idle"]
    /\ UNCHANGED <<heap, handles, local, started, returned, floor>>
    /\ UNCHANGED builderVars

StatsNext ==
    \/ \E kstat_sampler \in {None, Some("KstatSampler")}, registered \in BOOLEAN :
          RegisterServerMetrics(kstat_sampler, registered)
    \/ \E t \in Threads : started < MaxResets /\ CountResetCall(t)
    \/ \E t \in Threads : CountResetLock(t)
    \/ \E t \in Threads : CountResetRead(t)
    \/ \E t \in Threads : CountResetWrite(t)
    \/ \E t \in Threads : ProduceCall(t)
    \/ \E t \in Threads : ProduceLock(t)
    \/ \E t \in Threads : ProduceSample(t)
    \/ \E t \in Threads, sampler_ok \in BOOLEAN : ProduceReturn(t, sampler_ok)

----------------------------------------------------------------------------
(* The state machine: one action per call on the builder *)

Init ==
    /\ builder = None
    /\ result = NoResult
    /\ op = [name |-> "none"]
    /\ finished = None
    /\ nops = 0
    /\ StatsInit

New(properties, config) ==
    /\ builder = None
    /\ finished = None
    /\ LET out == ServerSpecBuilder_new(properties, config)
       IN /\ builder' = out.b
          /\ result' = out.res
    /\ op' = [name |-> "new", properties |-> properties, config |-> config]
    /\ nops' = 0
    /\ UNCHANGED finished
    /\ UNCHANGED statsVars

\* a call of a &mut self method: out is its result and the builder after it
Called(out, call) ==
    /\ builder' = Some(out.b)
    /\ result' = out.res
    /\ op' = call
    /\ nops' = nops + 1
    /\ UNCHANGED finished
    /\ UNCHANGED statsVars

AddNicFromRequest(nic) ==
    /\ builder # None
    /\ Called(add_nic_from_request(Unwrap(builder), nic),
              [name |-> "add_nic_from_request", nic |-> nic])

AddDiskFromRequest(disk) ==
    /\ builder # None
    /\ Called(add_disk_from_request(Unwrap(builder), disk),
              [name |-> "add_disk_from_request", disk |-> disk])

AddCloudInitFromRequest(base64) ==
    /\ builder # None
    /\ Called(add_cloud_init_from_request(Unwrap(builder), base64),
              [name |-> "add_cloud_init_from_request", base64 |-> base64])

AddDevicesFromConfig(config) ==
    /\ builder # None
    /\ Called(add_devices_from_config(Unwrap(builder), config),
              [name |-> "add_devices_from_config", config |-> config])

AddSerialPort(port) ==
    /\ builder # None
    /\ Called(add_serial_port(Unwrap(builder), port),
              [name |-> "add_serial_port", port |-> port])

Finish ==
    /\ builder # None
    /\ finished' = Some(finish(Unwrap(builder)))
    /\ builder' = None
    /\ result' = Ok
    /\ op' = [name |-> "finish"]
    /\ UNCHANGED nops
    /\ UNCHANGED statsVars

Next ==
    \/ \E i \in 1..Len(BuilderConfigs) : New(DefaultProperties, BuilderConfigs[i])
    \/ nops < MaxOps /\ \E nic \in NicRequests : AddNicFromRequest(nic)
    \/ nops < MaxOps /\ \E disk \in DiskRequests : AddDiskFromRequest(disk)
    \/ nops < MaxOps /\ \E base64 \in Payloads : AddCloudInitFromRequest(base64)
    \/ nops < MaxOps /\ \E i \in 1..Len(DeviceConfigs) :
                            AddDevicesFromConfig(DeviceConfigs[i])
    \/ nops < MaxOps /\ \E port \in SerialPortNumber : AddSerialPort(port)
    \/ Finish

Spec == Init /\ [][Next]_vars

----------------------------------------------------------------------------
(* The allocator alone: slot_to_pci_path over every slot value and class *)

CallSlotToPciPath(slot, ty) ==
    /\ result' = slot_to_pci_path(slot, ty)
    /\ op' = [name |-> "slot_to_pci_path", slot |-> slot, ty |-> ty]
    /\ UNCHANGED <<builder, finished, nops>>
    /\ UNCHANGED statsVars

SlotNext == \E slot \in 0..U8Max, ty \in SlotTypes : CallSlotToPciPath(slot, ty)

SlotSpec == Init /\ [][SlotNext]_vars

(* One builder fed serial ports only *)

SerialNext ==
    \/ New(DefaultProperties, DefaultConfig)
    \/ nops < MaxSerialCalls /\ \E port \in SerialPortNumber : AddSerialPort(port)
    \/ Finish

SerialSpec == Init /\ [][SerialNext]_vars

(* One builder fed disk requests only, some with a volume construction request
   whose serialization fails *)

MaxDiskCalls == 2

VolumeUnserializable(path) ==
    [kind |-> "Unserializable", block_size |-> 512, path |-> path]

UnserializableDiskRequests ==
    {[name |-> "disk1", slot |-> s, read_only |-> TRUE, device |-> d,
      volume_construction_request |-> VolumeUnserializable("disk1")] :
        s \in {0, NicMaxSlot + 1}, d \in {"virtio", "virtio-scsi"}}

DiskNext ==
    \/ New(DefaultProperties, DefaultConfig)
    \/ nops < MaxDiskCalls /\ \E disk \in DiskRequests \cup UnserializableDiskRequests :
                                  AddDiskFromRequest(disk)
    \/ Finish

DiskSpec == Init /\ [][DiskNext]_vars

(* The storage backend helper alone, over block-device entries *)

BackendTypes == {"file", "File", "zvol", "crucible"}
BackendNames == {"bd0", "bd1"}

\* what a block-device entry may hold under "path" and under "readonly"
PathValues == <<None, Some(TomlString("disk.img")), Some(TomlInteger(7))>>

ReadonlyValues == <<
    None,
    Some(TomlBoolean(TRUE)),
    Some(TomlBoolean(FALSE)),
    Some(TomlString("true")),
    Some(TomlString("false")),
    Some(TomlString("True")),
    Some(TomlString("yes")),
    Some(TomlString("")),
    Some(TomlInteger(1)),
    Some(TomlInteger(0))
>>

BackendOptions(path, ro) ==
    (IF path = None THEN EmptyMap ELSE "path" :> Unwrap(path))
    @@ (IF ro = None THEN EmptyMap ELSE "readonly" :> Unwrap(ro))

CallMakeStorageBackend(name, backend) ==
    /\ result' = make_storage_backend_from_config(name, backend)
    /\ op' = [name |-> "make_storage_backend_from_config",
              backend_name |-> name, backend |-> backend]
    /\ UNCHANGED <<builder, finished, nops>>
    /\ UNCHANGED statsVars

BackendNext ==
    \E name \in BackendNames, bdtype \in BackendTypes,
       p \in 1..Len(PathValues), r \in 1..Len(ReadonlyValues) :
         CallMakeStorageBackend(
             name, BlockDevice(bdtype, BackendOptions(PathValues[p], ReadonlyValues[r])))

BackendSpec == Init /\ [][BackendNext]_vars

(* The metrics: registration, then count_reset and produce from every thread *)

StatsSpec == Init /\ [][StatsNext]_vars

----------------------------------------------------------------------------
(* Properties *)

\* the spec held by the builder, and what is in it
Held == Unwrap(builder).spec
StoragePaths(spec) == {spec.storage_devices[n].pci_path : n \in DOMAIN spec.storage_devices}
NetworkPaths(spec) == {spec.network_devices[n].pci_path : n \in DOMAIN spec.network_devices}
BridgePaths(spec) == {spec.pci_pci_bridges[n].pci_path : n \in DOMAIN spec.pci_pci_bridges}
Occupied(spec) == StoragePaths(spec) \cup NetworkPaths(spec) \cup BridgePaths(spec)

Injective(m) == \A a, b \in DOMAIN m : a # b => m[a].pci_path # m[b].pci_path

NoSharedPciPath(spec) ==
    /\ Injective(spec.storage_devices)
    /\ Injective(spec.network_devices)
    /\ Injective(spec.pci_pci_bridges)
    /\ StoragePaths(spec) \cap NetworkPaths(spec) = {}
    /\ StoragePaths(spec) \cap BridgePaths(spec) = {}
    /\ NetworkPaths(spec) \cap BridgePaths(spec) = {}

PathInUseError(path) == Err(InnerBuilderError(PciPathInUse(path)))

\* a builder that holds nothing but what new puts in it
FreshBuilder ==
    Unwrap(ServerSpecBuilder_new(DefaultProperties, DefaultConfig).b)

\* the PCI paths a configuration asks for
ConfigPaths(config) ==
    {Unwrap(Device_get_pci_path(config.devices[i].device, "pci-path")) :
        i \in {j \in 1..Len(config.devices) :
                 Device_get_pci_path(config.devices[j].device, "pci-path") # None}}
    \cup {PciPath_from_str(config.pci_bridges[i].pci_path).val :
            i \in {j \in 1..Len(config.pci_bridges) :
                     PciPath_from_str(config.pci_bridges[j].pci_path).ok}}

\* the fixed table of the allocator
SlotTable(slot, ty) ==
    IF ty = "Nic" /\ slot \in 0..7
    THEN OkVal([bus |-> 0, device |-> 8 + slot, function |-> 0])
    ELSE IF ty = "Disk" /\ slot \in 0..7
    THEN OkVal([bus |-> 0, device |-> 16 + slot, function |-> 0])
    ELSE IF ty = "CloudInit" /\ slot = 0
    THEN OkVal([bus |-> 0, device |-> 24, function |-> 0])
    ELSE Err(PciSlotInvalid(slot, ty))

\* the PCI path a request asks for, when the request is otherwise valid
RequestPath(call) ==
    IF call.name = "add_nic_from_request"
    THEN SlotTable(call.nic.slot, "Nic")
    ELSE IF call.name = "add_disk_from_request"
    THEN IF call.disk.device \in {"virtio", "nvme"}
         THEN SlotTable(call.disk.slot, "Disk")
         ELSE Err("not a device")
    ELSE IF call.name = "add_cloud_init_from_request"
    THEN OkVal([bus |-> 0, device |-> 24, function |-> 0])
    ELSE Err("not a request")

\* the paths of the devices and bridges added so far
Registered == Unwrap(builder).pci_paths

C1_Step ==
    (builder # None /\ builder' # None) =>
      /\ NoSharedPciPath(Held')
      /\ Occupied(Held') \subseteq Registered'
      \* a request for a device on an occupied path is rejected as PciPathInUse
      /\ (RequestPath(op').ok /\ RequestPath(op').val \in Registered)
            => /\ result' = PathInUseError(RequestPath(op').val)
               /\ Held' = Held
      /\ op'.name = "add_devices_from_config" =>
            \* it succeeds only when none of its paths is occupied
            /\ result'.ok => ConfigPaths(op'.config) \cap Registered = {}
            \* a configuration that is good on its own, on occupied paths
            /\ (/\ add_devices_from_config(FreshBuilder, op'.config).res.ok
                /\ ConfigPaths(op'.config) \cap Registered # {})
                  => \E p \in ConfigPaths(op'.config) \cap Registered :
                        result' = PathInUseError(p)

\* C1: no two devices or bridges held in the spec under construction occupy the
\* same PciPath, whichever of the requests and the configuration they came from;
\* an addition on an occupied PciPath is rejected with PciPathInUse.
C1_UniquePciPaths ==
    /\ (builder # None => NoSharedPciPath(Held))
    /\ [][C1_Step]_vars

\* a NIC from the configuration was refused because a request holds its path
C1_Witness ==
    /\ builder # None
    /\ op.name = "add_devices_from_config"
    /\ result = PathInUseError([bus |-> 0, device |-> 8, function |-> 0])
    /\ [bus |-> 0, device |-> 8, function |-> 0] \in NetworkPaths(Held)

\* C2: for every slot 0..255 and class, slot_to_pci_path is the fixed table (NIC
\* 0-7 -> 0.8+slot.0, disk 0-7 -> 0.16+slot.0, cloud-init 0 -> 0.24.0, anything
\* else PciSlotInvalid with the slot and class), so no two valid (class, slot)
\* pairs get the same path.
C2_SlotTable ==
    op.name = "slot_to_pci_path" =>
      /\ result = SlotTable(op.slot, op.ty)
      /\ result.ok =>
           \A slot \in 0..255, ty \in SlotTypes :
              (<<slot, ty>> # <<op.slot, op.ty>> /\ slot_to_pci_path(slot, ty).ok)
                 => slot_to_pci_path(slot, ty).val # result.val

\* the last valid disk slot was translated
C2_Witness ==
    /\ op.name = "slot_to_pci_path"
    /\ op.slot = 7 /\ op.ty = "Disk"
    /\ result = OkVal([bus |-> 0, device |-> 23, function |-> 0])

C3_Step ==
    (/\ builder # None
     /\ op'.name = "add_disk_from_request"
     /\ op'.disk.slot \in 0..7
     /\ op'.disk.device \in {"virtio", "nvme"}
     /\ \E n \in DOMAIN Held.storage_devices :
           /\ Held.storage_devices[n].kind \in {"VirtioDisk", "NvmeDisk"}
           /\ Held.storage_devices[n].pci_path =
                [bus |-> 0, device |-> 16 + op'.disk.slot, function |-> 0])
    => /\ result' = PathInUseError(
                       [bus |-> 0, device |-> 16 + op'.disk.slot, function |-> 0])
       /\ builder' = builder

\* C3: once a disk is held at the path of a slot in 0-7, add_disk_from_request at
\* that slot fails with InnerBuilderError(PciPathInUse), whatever the names and
\* whichever of "virtio" / "nvme" the two disks use; the first disk and its
\* backend stay and the second is not added.
C3_SecondDiskRejected == [][C3_Step]_vars

\* a virtio disk2 was refused at slot 0, where the NVMe disk1 is held
C3_Witness ==
    /\ builder # None
    /\ op.name = "add_disk_from_request"
    /\ op.disk.name = "disk2" /\ op.disk.device = "virtio" /\ op.disk.slot = 0
    /\ result = PathInUseError([bus |-> 0, device |-> 16, function |-> 0])
    /\ DOMAIN Held.storage_devices = {"disk1"}
    /\ Held.storage_devices["disk1"] =
          NvmeDisk("disk1", [bus |-> 0, device |-> 16, function |-> 0])
    /\ DOMAIN Held.storage_backends = {"disk1"}

\* the device-table keys a NIC entry is tried under
NicKeys == {"net0", "anet", "vnic-0.8.0"}

\* what is held of networking: the devices and backends by name
Network(spec) ==
    [devices |-> spec.network_devices, backends |-> spec.network_backends]

\* the "pci-virtio-viona" entry that describes the NIC of a request
VionaEntryOf(nic) ==
    [driver |-> "pci-virtio-viona",
     options |-> NicOptions(nic.name,
                            PciPath_fmt(slot_to_pci_path(nic.slot, "Nic").val))]

\* the NIC requests that describe the NIC of a "pci-virtio-viona" entry
RequestsOf(device) ==
    {[name |-> Unwrap(Device_get_string(device, "vnic")), slot |-> s] :
        s \in {t \in 0..7 :
                 Some(SlotTable(t, "Nic").val) = Device_get_pci_path(device, "pci-path")}}

\* C5: a NIC's device and backend names are "vnic-<path>" and
\* "vnic-<path>-backend", whatever the host vNIC name and the device-table key; a
\* NIC from add_nic_from_request at slot s with vNIC name n and a NIC from a
\* "pci-virtio-viona" entry with the path of slot s and vnic n give the same
\* device name, backend name, device entry and backend entry.
C5_NicRequestEqualsConfig ==
    /\ (builder # None /\ op.name = "add_nic_from_request" /\ result.ok) =>
         \A key \in NicKeys :
            LET c == add_network_device_from_config(
                         FreshBuilder, key, VionaEntryOf(op.nic))
                n == Network(c.b.spec)
                name == VnicPrefix \o PciPath_fmt(SlotTable(op.nic.slot, "Nic").val)
            IN /\ c.res.ok
               /\ DOMAIN n.devices = {name}
               /\ DOMAIN n.backends = {name \o BackendSuffix}
               /\ name \in DOMAIN Held.network_devices
               /\ Held.network_devices[name] = n.devices[name]
               /\ Held.network_backends[name \o BackendSuffix]
                     = n.backends[name \o BackendSuffix]
    /\ (builder # None /\ op.name = "add_devices_from_config" /\ result.ok) =>
         \A i \in 1..Len(op.config.devices) :
            op.config.devices[i].device.driver = "pci-virtio-viona" =>
              \A nic \in RequestsOf(op.config.devices[i].device) :
                 LET r == add_nic_from_request(FreshBuilder, nic)
                     n == Network(r.b.spec)
                 IN /\ r.res.ok
                    /\ \A d \in DOMAIN n.devices :
                          /\ d \in DOMAIN Held.network_devices
                          /\ Held.network_devices[d] = n.devices[d]
                    /\ \A k \in DOMAIN n.backends :
                          /\ k \in DOMAIN Held.network_backends
                          /\ Held.network_backends[k] = n.backends[k]

\* the NIC of request slot 0 is held under its path-derived names
C5_Witness ==
    /\ builder # None
    /\ op.name = "add_nic_from_request" /\ result.ok
    /\ op.nic = [name |-> "vnic1", slot |-> 0]
    /\ DOMAIN Held.network_devices = {<<"v", "n", "i", "c", "-", "0", ".", "8", ".", "0">>}
    /\ DOMAIN Held.network_backends =
          {<<"v", "n", "i", "c", "-", "0", ".", "8", ".", "0",
             "-", "b", "a", "c", "k", "e", "n", "d">>}

\* the k-th thing add_devices_from_config adds: the device entries in key
\* order, then the bridges
ApplyItem(b, config, k) ==
    IF k <= Len(config.devices)
    THEN add_device_entry(b, config, config.devices[k].name, config.devices[k].device)
    ELSE add_pci_bridge_from_config(b, config.pci_bridges[k - Len(config.devices)])

RECURSIVE ApplyPrefix(_, _, _)
\* the first k of them applied in turn, up to the first that fails
ApplyPrefix(b, config, k) ==
    IF k = 0 THEN Outcome(Ok, b)
    ELSE With(ApplyPrefix(b, config, k - 1),
              LAMBDA pre : IF ~pre.res.ok THEN pre ELSE ApplyItem(pre.b, config, k))

ItemCount(config) == Len(config.devices) + Len(config.pci_bridges)

C6_OriginalStep ==
    (builder # None /\ builder' # None /\ ~result'.ok) => Held' = Held

\* C6 as claimed: whenever a builder operation returns an error, the spec under
\* construction holds exactly what it held before the call, add_devices_from_config
\* with a later invalid entry included.
C6_ErrorLeavesSpecUnchanged == [][C6_OriginalStep]_vars

C6_AmendedStep ==
    (builder # None /\ builder' # None /\ ~result'.ok) =>
      IF op'.name = "add_devices_from_config"
      THEN \E k \in 1..ItemCount(op'.config) :
              /\ ApplyPrefix(Unwrap(builder), op'.config, k - 1).res.ok
              /\ ApplyItem(ApplyPrefix(Unwrap(builder), op'.config, k - 1).b,
                           op'.config, k).res = result'
              /\ builder' = Some(ApplyPrefix(Unwrap(builder), op'.config, k - 1).b)
      ELSE builder' = builder

\* C6 amended: a failed add_nic_from_request, add_disk_from_request,
\* add_cloud_init_from_request or add_serial_port leaves the spec under
\* construction as it was; a failed add_devices_from_config returns the error of
\* the first entry that fails and leaves the spec with the entries ahead of it
\* (devices in key order, then bridges) added.
C6_ErrorKeepsPrefix == [][C6_AmendedStep]_vars

\* add_devices_from_config failed on its second entry and the first is held
C6_Witness ==
    /\ builder # None
    /\ op.name = "add_devices_from_config"
    /\ result = Err(ConfigTomlError("Unrecognized device type", "pci-unknown"))
    /\ nops = 1
    /\ DOMAIN Held.storage_devices = {"block0"}
    /\ DOMAIN Held.storage_backends = {"bd1"}

C7_Step ==
    (builder # None /\ op'.name = "add_serial_port") =>
      /\ result'.ok <=> op'.port \notin Held.serial_ports
      /\ result'.ok => Held'.serial_ports = Held.serial_ports \cup {op'.port}
      /\ ~result'.ok => /\ result' = Err(InnerBuilderError(SerialPortInUse(op'.port)))
                        /\ Held'.serial_ports = Held.serial_ports
                        /\ builder' = builder

\* C7: on one builder an add_serial_port call succeeds if and only if its port
\* (COM1-COM4) has not been added before; a repeated port fails with
\* InnerBuilderError(SerialPortInUse) and leaves the enabled ports unchanged.
\* COM1..COM4 in sequence all succeed and re-adding COM1 then fails.
C7_SerialPortOnce ==
    /\ (builder # None =>
          Held.serial_ports \subseteq SerialPortNumber
          /\ Cardinality(Held.serial_ports) <= nops)
    /\ [][C7_Step]_vars

\* COM1 was refused as the fifth call, after four calls that each added a port
C7_Witness ==
    /\ builder # None
    /\ nops = 5
    /\ op = [name |-> "add_serial_port", port |-> "Com1"]
    /\ result = Err(InnerBuilderError(SerialPortInUse("Com1")))
    /\ Held.serial_ports = {"Com1", "Com2", "Com3", "Com4"}

\* C8: new with the default properties and an empty configuration succeeds, and
\* finish right after it yields a spec holding the pvpanic device (enable_isa =
\* true) and nothing else: no storage or network devices, no backends, no
\* bridges, no serial ports.
C8_DefaultBuilder ==
    /\ (op.name = "new" /\ op.properties = DefaultProperties
        /\ op.config = DefaultConfig)
          => /\ result = Ok
             /\ builder # None
    /\ (finished # None /\ nops = 0) =>
          LET spec == Unwrap(finished)
          IN /\ spec.qemu_pvpanic = Some([enable_isa |-> TRUE])
             /\ DOMAIN spec.storage_devices = {}
             /\ DOMAIN spec.storage_backends = {}
             /\ DOMAIN spec.network_devices = {}
             /\ DOMAIN spec.network_backends = {}
             /\ DOMAIN spec.pci_pci_bridges = {}
             /\ spec.serial_ports = {}

\* finish was called on a builder made from the defaults and never added to
C8_Witness ==
    /\ finished # None
    /\ nops = 0
    /\ op.name = "finish"
    /\ Unwrap(finished).board =
          [cpus |-> 4, memory_mb |-> 512, chipset |-> [enable_pcie |-> FALSE]]

C9_Step ==
    (/\ builder # None
     /\ op'.name = "add_disk_from_request"
     /\ op'.disk.slot \in 0..7)
    => LET disk == op'.disk
           path == [bus |-> 0, device |-> 16 + disk.slot, function |-> 0]
       IN /\ disk.device \notin {"virtio", "nvme"} =>
               /\ result' = Err(UnrecognizedStorageDevice(disk.device))
               /\ builder' = builder
          /\ (disk.device \in {"virtio", "nvme"} /\ path \notin Registered)
                => result'.ok
          /\ (disk.device = "virtio" /\ result'.ok) =>
               /\ disk.name \in DOMAIN Held'.storage_devices
               /\ Held'.storage_devices[disk.name] = VirtioDisk(disk.name, path)
          /\ (disk.device = "nvme" /\ result'.ok) =>
               /\ disk.name \in DOMAIN Held'.storage_devices
               /\ Held'.storage_devices[disk.name] = NvmeDisk(disk.name, path)

\* C9: add_disk_from_request at a valid slot with an interface other than
\* "virtio" or "nvme" fails with UnrecognizedStorageDevice carrying that string
\* and adds neither a device nor a backend; with "virtio" it adds a virtio-block
\* disk and with "nvme" an NVMe disk.
C9_StorageInterface == [][C9_Step]_vars

\* "virtio-scsi" was refused at slot 0 of a builder that holds a disk elsewhere
C9_Witness ==
    /\ builder # None
    /\ op.name = "add_disk_from_request"
    /\ op.disk.device = "virtio-scsi" /\ op.disk.slot = 0
    /\ result = Err(UnrecognizedStorageDevice("virtio-scsi"))
    /\ DOMAIN Held.storage_devices = {"disk2"}
    /\ Held.storage_devices["disk2"].kind = "VirtioDisk"

\* the i-th device entry is a well-formed storage device on an absent backend
MissingBackendEntry(config, i) ==
    LET device == config.devices[i].device
    IN /\ device.driver \in {"pci-virtio-block", "pci-nvme"}
       /\ Device_get_string(device, "block_dev") # None
       /\ Device_get_pci_path(device, "pci-path") # None
       /\ Unwrap(Device_get_string(device, "block_dev")) \notin DOMAIN config.block_devs

C10_Step ==
    (builder # None /\ op'.name = "add_devices_from_config") =>
      \A i \in 1..Len(op'.config.devices) :
         (/\ MissingBackendEntry(op'.config, i)
          /\ ApplyPrefix(Unwrap(builder), op'.config, i - 1).res.ok)
         => LET entry == op'.config.devices[i]
                before == ApplyPrefix(Unwrap(builder), op'.config, i - 1).b.spec
            IN /\ result' = Err(DeviceMissingBackend(
                      entry.name, Unwrap(Device_get_string(entry.device, "block_dev"))))
               /\ Held'.storage_devices = before.storage_devices
               /\ Held'.storage_backends = before.storage_backends
               /\ entry.name \notin DOMAIN Held.storage_devices
                     => entry.name \notin DOMAIN Held'.storage_devices

\* C10: in add_devices_from_config a well-formed storage device entry
\* ("pci-virtio-block" or "pci-nvme") whose block_dev names a backend absent from
\* the block-device table fails with DeviceMissingBackend carrying the device
\* name and the backend name, and the device is not added.
C10_MissingBackend == [][C10_Step]_vars

\* the second entry named the absent backend bd9; the NIC ahead of it is held
C10_Witness ==
    /\ builder # None
    /\ op.name = "add_devices_from_config"
    /\ result = Err(DeviceMissingBackend("block0", "bd9"))
    /\ DOMAIN Held.storage_devices = {}
    /\ DOMAIN Held.network_devices = {<<"v", "n", "i", "c", "-", "0", ".", "9", ".", "0">>}

----------------------------------------------------------------------------
(* The chipset option read by new *)

\* the flag of the board made by the last call of new
BoardFlag == Held.board.chipset.enable_pcie

\* the last call was new, and this is the value it found under "enable-pcie"
NewFound(v) ==
    /\ op.name = "new"
    /\ MapGet(op.config.chipset.options, "enable-pcie") = v

NewFailedOnFormat ==
    /\ ~result.ok
    /\ result.err.kind = "ConfigTomlError"
    /\ builder = None

\* C11: new reads "enable-pcie" so: absent, the flag is false; a boolean, the
\* flag is that boolean; the string "true" or "false", the flag is the boolean
\* the string denotes; any other value fails with ConfigTomlError and no
\* builder is created.
C11_EnablePcieOption ==
    /\ NewFound(None) => (result = Ok /\ builder # None /\ BoardFlag = FALSE)
    /\ \A b \in BOOLEAN :
          NewFound(Some(TomlBoolean(b)))
             => (result = Ok /\ builder # None /\ BoardFlag = b)
    /\ NewFound(Some(TomlString("true")))
          => (result = Ok /\ builder # None /\ BoardFlag = TRUE)
    /\ NewFound(Some(TomlString("false")))
          => (result = Ok /\ builder # None /\ BoardFlag = FALSE)
    /\ (NewFound(Some(TomlString("yes"))) \/ NewFound(Some(TomlInteger(1))))
          => NewFailedOnFormat

\* what new does with the option: only a TOML boolean is accepted
C11_OnlyBooleansAccepted ==
    /\ NewFound(None) => (result = Ok /\ builder # None /\ BoardFlag = FALSE)
    /\ \A b \in BOOLEAN :
          NewFound(Some(TomlBoolean(b)))
             => (result = Ok /\ builder # None /\ BoardFlag = b)
    /\ \A i \in 1..Len(BuilderConfigs) :
          LET v == MapGet(BuilderConfigs[i].chipset.options, "enable-pcie")
          IN (NewFound(v) /\ v # None /\ Unwrap(v).t # "Boolean")
                => /\ NewFailedOnFormat
                   /\ result.err = ConfigTomlValueError(
                          "Invalid value for enable-pcie flag in chipset", Unwrap(v))

\* new was handed the string "true" and refused it
C11_Witness ==
    /\ NewFound(Some(TomlString("true")))
    /\ NewFailedOnFormat

----------------------------------------------------------------------------
(* Devices ahead of bridges *)

\* some bridge of the configuration has a PCI path text that does not parse
HasMalformedBridge(config) ==
    \E i \in 1..Len(config.pci_bridges) :
       ~PciPath_from_str(config.pci_bridges[i].pci_path).ok

C12_Step ==
    (builder # None /\ op'.name = "add_devices_from_config") =>
      With(ApplyPrefix(Unwrap(builder), op'.config, Len(op'.config.devices)),
           LAMBDA devices :
             \* a device entry failed: its error is returned, no bridge was added
             /\ ~devices.res.ok =>
                   /\ result' = devices.res
                   /\ Held'.pci_pci_bridges = Held.pci_pci_bridges
                   /\ builder' = Some(devices.b)
             \* a bridge was added: every device entry had been added before
             /\ Held'.pci_pci_bridges # Held.pci_pci_bridges =>
                   /\ devices.res.ok
                   /\ Held'.storage_devices = devices.b.spec.storage_devices
                   /\ Held'.network_devices = devices.b.spec.network_devices)

\* C12: within one add_devices_from_config call no PCI bridge is added before
\* every entry of the device table has been processed successfully; when the
\* configuration holds a failing device entry and a failing bridge entry, the
\* error returned is the device's and no bridge has been added.
C12_DevicesBeforeBridges == [][C12_Step]_vars

\* an unknown driver and a malformed bridge path in one configuration, with a
\* good bridge ahead of the malformed one: the driver's error came back and no
\* bridge is held
C12_Witness ==
    /\ builder # None
    /\ op.name = "add_devices_from_config"
    /\ HasMalformedBridge(op.config)
    /\ Len(op.config.pci_bridges) = 2
    /\ result = Err(ConfigTomlError("Unrecognized device type", "pci-unknown"))
    /\ DOMAIN Held.pci_pci_bridges = {}

----------------------------------------------------------------------------
(* The cloud-init disk *)

CloudInitPath == [bus |-> 0, device |-> 24, function |-> 0]

\* the storage devices of a spec that sit on a blob backend
BlobDevices(spec) ==
    {n \in DOMAIN spec.storage_devices :
        /\ spec.storage_devices[n].backend_name \in DOMAIN spec.storage_backends
        /\ spec.storage_backends[spec.storage_devices[n].backend_name].kind = "Blob"}

\* the spec holds the cloud-init disk with this payload
HoldsCloudInit(spec, base64) ==
    /\ "cloud-init" \in DOMAIN spec.storage_devices
    /\ spec.storage_devices["cloud-init"] =
          [kind |-> "VirtioDisk", backend_name |-> "cloud-init",
           pci_path |-> CloudInitPath]
    /\ "cloud-init" \in DOMAIN spec.storage_backends
    /\ spec.storage_backends["cloud-init"] =
          [kind |-> "Blob", base64 |-> base64, readonly |-> TRUE]

C13_Step ==
    (builder # None /\ op'.name = "add_cloud_init_from_request") =>
      /\ result'.ok <=> CloudInitPath \notin Registered
      /\ result'.ok => HoldsCloudInit(Held', op'.base64)
      \* a second call: refused, and the first payload stays
      /\ \A first \in Payloads :
            HoldsCloudInit(Held, first) =>
               /\ result' = PathInUseError(CloudInitPath)
               /\ Held' = Held
               /\ HoldsCloudInit(Held', first)

\* C13: every successful add_cloud_init_from_request, whatever its payload,
\* adds a virtio-block device named "cloud-init" at bus 0, device 0x18,
\* function 0 on a read-only blob backend named "cloud-init"; a spec holds at
\* most one cloud-init device, and a second add_cloud_init_from_request fails
\* with PciPathInUse and leaves the first payload in place.
C13_OneCloudInit ==
    /\ (builder # None => Cardinality(BlobDevices(Held)) <= 1)
    /\ [][C13_Step]_vars

\* a second call with another payload was refused and the first payload is held
C13_Witness ==
    /\ builder # None
    /\ nops = 2
    /\ op = [name |-> "add_cloud_init_from_request", base64 |-> "c2VlZDI="]
    /\ result = PathInUseError(CloudInitPath)
    /\ HoldsCloudInit(Held, "c2VlZDE=")

----------------------------------------------------------------------------
(* The readonly option of a file backend *)

\* the option is the boolean true or a string that parses as the boolean true
DenotesTrue(ro) ==
    /\ ro # None
    /\ \/ (Unwrap(ro).t = "Boolean" /\ Unwrap(ro).b)
       \/ (Unwrap(ro).t = "String" /\ Unwrap(ro).s = "true")

\* C14: for a block-device entry of type "file" with a string path option
\* make_storage_backend_from_config never fails because of the readonly option:
\* readonly is true exactly when the option is the boolean true or a string that
\* parses as true, and false in every other case; an entry of any other type
\* fails with UnrecognizedStorageBackend carrying the type string.
C14_ReadonlyOption ==
    op.name = "make_storage_backend_from_config" =>
      LET path == MapGet(op.backend.options, "path")
          ro == MapGet(op.backend.options, "readonly")
      IN /\ (op.backend.bdtype = "file" /\ path # None /\ Unwrap(path).t = "String")
               => /\ result.ok
                  /\ result.val = [kind |-> "File", path |-> Unwrap(path).s,
                                   readonly |-> DenotesTrue(ro)]
         /\ op.backend.bdtype # "file" =>
               result = Err([kind |-> "UnrecognizedStorageBackend",
                             bdtype |-> op.backend.bdtype])

\* a file backend whose readonly option is the unparseable string "yes"
C14_Witness ==
    /\ op.name = "make_storage_backend_from_config"
    /\ op.backend.bdtype = "file"
    /\ "readonly" \in DOMAIN op.backend.options
    /\ op.backend.options["readonly"].t = "String"
    /\ op.backend.options["readonly"].s = "yes"
    /\ result.ok
    /\ result.val.readonly = FALSE

----------------------------------------------------------------------------
(* The order of request-driven additions *)

RequestCalls == {"add_nic_from_request", "add_disk_from_request",
                 "add_cloud_init_from_request"}

NicCall(nic) == [name |-> "add_nic_from_request", nic |-> nic]
DiskCall(disk) == [name |-> "add_disk_from_request", disk |-> disk]
CloudInitCall(base64) == [name |-> "add_cloud_init_from_request", base64 |-> base64]

\* the request-driven addition a call record stands for
ApplyCall(b, call) ==
    IF call.name = "add_nic_from_request" THEN add_nic_from_request(b, call.nic)
    ELSE IF call.name = "add_disk_from_request"
    THEN add_disk_from_request(b, call.disk)
    ELSE add_cloud_init_from_request(b, call.base64)

\* on builder b, second after first succeeded and left builder after: the
\* opposite order succeeds too and finish yields the same spec
SameInOppositeOrder(b, first, after, second) ==
    With(ApplyCall(after, second), LAMBDA both :
      both.res.ok =>
        With(ApplyCall(b, second), LAMBDA other :
          /\ other.res.ok
          /\ With(ApplyCall(other.b, first), LAMBDA swapped :
                /\ swapped.res.ok
                /\ finish(swapped.b) = finish(both.b))))

\* the name a request gives its storage device, if it adds one
StorageName(call) ==
    IF call.name = "add_disk_from_request" THEN Some(call.disk.name)
    ELSE IF call.name = "add_cloud_init_from_request" THEN Some("cloud-init")
    ELSE None

SameStorageName(c1, c2) ==
    StorageName(c1) # None /\ StorageName(c1) = StorageName(c2)

\* the step was a successful request-driven addition, and every second
\* request-driven addition satisfying Covered commutes with it
OrderStep(Covered(_, _)) ==
    (builder # None /\ op'.name \in RequestCalls /\ result'.ok) =>
      /\ \A nic \in NicRequests :
            Covered(op', NicCall(nic)) =>
              SameInOppositeOrder(Unwrap(builder), op', Unwrap(builder'), NicCall(nic))
      /\ \A disk \in DiskRequests :
            Covered(op', DiskCall(disk)) =>
              SameInOppositeOrder(Unwrap(builder), op', Unwrap(builder'), DiskCall(disk))
      /\ \A base64 \in Payloads :
            Covered(op', CloudInitCall(base64)) =>
              SameInOppositeOrder(Unwrap(builder), op', Unwrap(builder'),
                                  CloudInitCall(base64))

AnyPair(c1, c2) == TRUE
DifferentStorageNames(c1, c2) == ~SameStorageName(c1, c2)

\* C15 as claimed: for any two request-driven additions applied to the same
\* builder state, if both succeed in one order then both succeed in the
\* opposite order and finish yields the same instance spec.
C15_AnyOrder == [][OrderStep(AnyPair)]_vars

\* C15 amended: the same, for two request-driven additions that do not give
\* one name to two storage devices.
C15_AnyOrderOfDifferentNames == [][OrderStep(DifferentStorageNames)]_vars

\* a disk was added after a NIC and a second disk of another name can follow
C15_Witness ==
    /\ builder # None
    /\ nops = 2
    /\ op.name = "add_disk_from_request" /\ op.disk.name = "disk1"
    /\ result.ok
    /\ DOMAIN Held.network_devices # {}
    /\ \E disk \in DiskRequests :
          /\ disk.name = "disk2"
          /\ add_disk_from_request(Unwrap(builder), disk).res.ok

----------------------------------------------------------------------------
(* The order of the checks of add_disk_from_request *)

Serializable(disk) == disk.volume_construction_request.kind # "Unserializable"
DiskPath(disk) == [bus |-> 0, device |-> 16 + disk.slot, function |-> 0]

C16_Step ==
    (builder # None /\ op'.name = "add_disk_from_request") =>
      LET disk == op'.disk
      IN /\ IF disk.slot \notin 0..7
            THEN result' = Err([kind |-> "PciSlotInvalid", slot |-> disk.slot,
                                ty |-> "Disk"])
            ELSE IF ~Serializable(disk)
            THEN result' = Err([kind |-> "SerializationError", name |-> disk.name])
            ELSE IF disk.device \notin {"virtio", "nvme"}
            THEN result' = Err([kind |-> "UnrecognizedStorageDevice",
                                iface |-> disk.device])
            ELSE IF DiskPath(disk) \in Registered
            THEN result' = PathInUseError(DiskPath(disk))
            ELSE result'.ok
         /\ ~result'.ok => builder' = builder

\* C16: add_disk_from_request reports only the first failure, in the order
\* slot range, serialization of the volume descriptor, interface string,
\* PciPath collision: an out-of-range slot with an unrecognized interface fails
\* with PciSlotInvalid, and an unrecognized interface at a valid, occupied slot
\* fails with UnrecognizedStorageDevice, never with PciPathInUse.
C16_FirstFailureOnly == [][C16_Step]_vars

\* "virtio-scsi" was asked for at slot 0, which a disk of the spec occupies
C16_Witness ==
    /\ builder # None
    /\ nops = 2
    /\ op.name = "add_disk_from_request"
    /\ op.disk.device = "virtio-scsi" /\ op.disk.slot = 0
    /\ Serializable(op.disk)
    /\ DiskPath(op.disk) \in Registered
    /\ result = Err(UnrecognizedStorageDevice("virtio-scsi"))

----------------------------------------------------------------------------
(* The reset counter under concurrency *)

MetricsRegistered == TheArc \in DOMAIN heap /\ heap[TheArc].strong > 0

\* the counter every clone shares
SharedRunCount == heap[TheArc].stats.run_count

\* a run_count reported by a produce call that began after floor[t] calls of
\* count_reset had returned
ReportInRange(t, run_count) == floor[t] <= run_count /\ run_count <= started

C17_Inv ==
    MetricsRegistered =>
      \* every count_reset that has returned raised the counter by exactly 1
      /\ SharedRunCount = returned
      /\ returned <= started
      /\ \A t \in Threads :
            /\ pc[t] = "produce_kstat" => ReportInRange(t, local[t])
            /\ (produced[t] # None /\ Unwrap(produced[t]).ok)
                  => ReportInRange(t, Unwrap(produced[t]).val.run_count)

C17_Step ==
    (MetricsRegistered /\ MetricsRegistered') =>
      /\ heap'[TheArc].stats.run_count >= SharedRunCount
      /\ returned' = returned + 1
            => heap'[TheArc].stats.run_count = SharedRunCount + 1
      /\ returned' = returned
            => heap'[TheArc].stats.run_count = SharedRunCount

====
